---- MODULE Spec2Model ----
(***************************************************************************)
(* Peer verification of ivoras/discover: the AuthServer (Responder) of one *)
(* Discoverer, the AuthClient (Verifier) and discovery pipeline of         *)
(* another one (possibly living in the same process), the legacy           *)
(* AuthResolver, and the network between them.                             *)
(*                                                                         *)
(* Byte strings are kept at the granularity of the wire fields: a frame is *)
(* a sequence of chunks, chunk i of a Challenge being its i-th field       *)
(* (6, 10 and 20 bytes).  The magic header is kept byte by byte because    *)
(* the code copies and compares it with differing lengths.  A dedupe ID    *)
(* and a nonce are tokens (0 is the all-zero value), and HMAC-SHA256 is    *)
(* the free constructor <<key, message>>.                                  *)
(***************************************************************************)
EXTENDS Integers, Sequences, FiniteSets, TLC

\* ------------------------------------------------------------------ bounds
\* what the outside world feeds the program in one run: datagrams and TCP
\* connections from foreign hosts, candidate addresses from the DHT
MaxInputs == 3

\* ------------------------------------------------------- program constants
LEN_UDP_POOLS == 100
LEN_DEDUPE == 10
LEN_MSG == 20
LEN_MAGIC == 6
LEN_PORT == 2
LEN_MAC == 32
LEN_CHALLENGE == LEN_MAGIC + LEN_DEDUPE + LEN_MSG
LEN_RESPONSE == LEN_PORT + LEN_MAC
UINT16 == 2 ^ 16

\* "XXUU7611", the process-wide header of the current package
magicHeader == <<88, 88, 85, 85, 55, 54, 49, 49>>
\* "wherez", the header of the legacy resolver
legacyMagicHeader == <<119, 104, 101, 114, 101, 122>>

\* ------------------------------------------------------------ input sets
Passphrases == {"P", "Q"}
AppPorts == {-1, 8080, 73616}
DedupeIds == {1, 2}
EnvNonces == {9}            \* the nonces in the frames of foreign hosts
Discoverers == {"A", "B"}   \* A runs the pipeline, B is the one being probed
Media == {"udp", "tcp", "legacy"}
Addresses == {"B", "X"}     \* B: the AuthServer of B; X: a foreign host

\* ------------------------------------------------------------- primitives
\* copy(dst[:], src[:]) into a zeroed array of n bytes
CopyInto(n, src) == [i \in 1..n |-> IF i <= Len(src) THEN src[i] ELSE 0]

\* bytes.Equal / hmac.Equal: same length and same bytes
bytesEqual(a, b) == a = b

Take(s, n) == SubSeq(s, 1, IF n < Len(s) THEN n ELSE Len(s))
Last(s) == s[Len(s)]

HMAC(key, msg) == <<key, msg>>
ZeroMAC == <<"", 0>>
ZeroMagic == CopyInto(LEN_MAGIC, <<>>)

\* a conversion to the wrong width: uint8(x)
ToUint8(x) == x % (2 ^ 8)

\* uint16(x) of a Go int
ToUint16(x) == x % UINT16

\* sizes of the fields of a Challenge and of a Response, in wire order
ChallengeFieldLen == <<LEN_MAGIC, LEN_DEDUPE, LEN_MSG>>
ResponseFieldLen == <<LEN_PORT, LEN_MAC>>

RECURSIVE WireLen(_, _)
\* number of bytes of a frame given as chunks laid out as repeated `fields`
WireLen(frame, fields) ==
    IF frame = <<>> THEN 0
    ELSE fields[((Len(frame) - 1) % Len(fields)) + 1]
         + WireLen(SubSeq(frame, 1, Len(frame) - 1), fields)

\* binary.Write(buf, LittleEndian, challenge): the three fields in order
ChallengeBytes(c) == <<c.MagicHeader, c.Dedupe, c.Challenge>>
\* binary.Write(buf, LittleEndian, response)
ResponseBytes(r) == <<r.Port, r.MAC>>

\* binary.Read of a Challenge from a reader holding `data`: fails unless all
\* 36 bytes are there
ReadChallenge(data) ==
    IF WireLen(Take(data, 3), ChallengeFieldLen) < LEN_CHALLENGE
    THEN [ok |-> FALSE]
    ELSE [ok |-> TRUE,
          challenge |-> [MagicHeader |-> data[1], Dedupe |-> data[2],
                         Challenge |-> data[3]]]

\* binary.Read of a Response from a reader holding `data`
ReadResponse(data) ==
    IF WireLen(Take(data, 2), ResponseFieldLen) < LEN_RESPONSE
    THEN [ok |-> FALSE]
    ELSE [ok |-> TRUE, response |-> [Port |-> data[1], MAC |-> data[2]]]

\* ------------------------------------------------------------------ state
VARIABLES
    appPort,              \* Discoverer.appPort / AuthServer.AppPort, per discoverer
    passphrase,           \* Discoverer.passphrase, per discoverer
    dedupe,               \* the dedupe ID of each discoverer's process
    allowSelfConnection,  \* the switch of B's process
    ih,                   \* Discoverer.ih, the infohash, per discoverer
    medium,               \* the one socket of B foreign hosts talk to in this run
    fpPc,                 \* where each discoverer's FindPeers stands
    tcpListener,          \* AuthServer.tcpListener: "idle", "serving", "stopped", "closed"
    udpListener,          \* AuthServer.udpListener: the same
    dhtNode,              \* the DHT client FindPeers created: <<>> or <<announce>>
    closed,               \* whether DiscoveredPeers has been closed
    udpPool,              \* B's bpool channel: the ids of the pooled buffers
    bufs,                 \* the contents of the buffers B allocated so far
    udpLoopBuf,           \* the buffer B's receive loop holds (0: none)
    udpHandlers,          \* B's running handleUDPClient goroutines
    udpIn,                \* datagrams in flight to B's UDP socket
    inputs,               \* how many inputs the outside world has fed so far
    lastSent,             \* the Response B transmitted last, with what it answered
    dhtRequested,         \* a PeersRequest of A is outstanding at its DHT client
    dhtResults,           \* A's PeersRequestResults: candidates not yet consumed
    dhtGiven,             \* how many candidates the consumer has taken
    cpc,                  \* A's candidate consumer: "none", "idle", "reading", "sending"
    ver,                  \* the verification the consumer is in
    vReply,               \* datagrams in flight to the socket of that verification
    lastResult,           \* the call of Verify that finished last
    mainPc,               \* the CLI of A: "FindPeers", "range", "exit"
    printed,              \* the peers the CLI printed as "peer found"
    resolverListener,     \* the listener of B's legacy AuthResolver
    tcpIn,                \* TCP connections not yet accepted
    tcpHandlers,          \* running handleTCPClient / handleConn goroutines
    rvResult              \* the call of AuthResolver.Verify that returned last

respVars == <<udpPool, bufs, udpLoopBuf, udpHandlers, udpIn, inputs, lastSent>>
tcpVars == <<resolverListener, tcpIn, tcpHandlers, rvResult>>
pipeVars == <<dhtResults, dhtGiven, cpc, ver, vReply, lastResult, mainPc, printed>>
cfgVars == <<appPort, passphrase, dedupe, allowSelfConnection, ih, medium>>
fpVars == <<fpPc, tcpListener, udpListener, dhtNode, closed>>

\* sha256 of `msg`: the digest as its two 16-byte halves; sha1 of `msg`
SHA256(msg) == <<<<"sha256", msg, 1>>, <<"sha256", msg, 2>>>>
SHA1(msg) == <<"sha1", msg>>

\* an infohash taken from the whole SHA-256 digest
InfoHashOfWholeDigest(d) == SHA1(SHA256(passphrase[d]))

\* the infohash NewDiscoverer computes: h := sha256(passphrase),
\* h2 := h[0 : sha256.Size/2], ih := sha1(h2)
NewDiscovererInfoHash(d) == SHA1(Take(SHA256(passphrase[d]), 1))

ZeroBuf == <<ZeroMagic, 0, 0>>

\* the process of d has not been ended by log.Fatalf or by a panic
Alive(d) == fpPc[d] \notin {"fatal", "panic"}

\* bpool.BytePool.Get on pool channel `pool`: a pooled buffer, else a new one
PoolGetId(pool, all) == IF pool # <<>> THEN Head(pool) ELSE Len(all) + 1
PoolAfterGet(pool) == IF pool # <<>> THEN Tail(pool) ELSE pool
BufsAfterGet(pool, all) == IF pool # <<>> THEN all ELSE Append(all, ZeroBuf)
\* bpool.BytePool.Put: back into the channel unless it is full
PoolPut(pool, id) == IF Len(pool) < LEN_UDP_POOLS THEN Append(pool, id) ELSE pool

\* ReadFromUDP(buf): the datagram overwrites the head of the buffer
Overlay(buf, data) ==
    [i \in 1..Len(buf) |-> IF i <= Len(data) THEN data[i] ELSE buf[i]]

\* --------------------------------------------------------------- responder
\* respondChallenge as it runs on its own copy of `response`
respondChallengeLocal(d, challenge, response) ==
    IF ~bytesEqual(challenge.MagicHeader, magicHeader) THEN response
    ELSE IF ~allowSelfConnection /\ bytesEqual(challenge.Dedupe, dedupe[d])
    THEN response
    ELSE [response EXCEPT !.MAC = HMAC(passphrase[d], challenge.Challenge)]

\* the caller's `response` after a.respondChallenge(challenge, response): the
\* struct is passed by value, so nothing the callee wrote comes back
respondChallenge(d, challenge, response) ==
    LET local == respondChallengeLocal(d, challenge, response)
    IN  response

\* Response{Port: uint16(a.AppPort)}
NewResponse(d) == [Port |-> ToUint16(appPort[d]), MAC |-> ZeroMAC]

\* a FindPeers that announces whatever the appPort
AnnounceAlways(d) == TRUE

\* announce := false; if this.appPort > 0 { announce = true ... }
Announce(d) == appPort[d] > 0

\* a FindPeers that starts the consumer before it creates the DHT node
ConsumerStartedEarly(fatal, dhtErr) == ~fatal

\* whether FindPeers gets as far as `go func(d *dht.DHT)`, the candidate
\* consumer: past the listener and past dht.NewDHTNode
ConsumerStarted(fatal, dhtErr) == ~fatal /\ ~dhtErr

\* a log.Fatalf that only logs: the sockets stay as they are
ReturnedListener(l) == l

\* a listener after log.Fatalf: os.Exit ends the process and closes every
\* socket it had bound
ExitedListener(l) == IF l = "serving" THEN "closed" ELSE l

\* FindPeers from its call to the probe loop (or to its return): the
\* Responder when appPort > 0, the DHT node, the consumer goroutine.  A bind
\* failure ends the process in log.Fatalf; when NewDHTNode fails FindPeers
\* returns and the deferred close(DiscoveredPeers) runs.
FindPeers(d) ==
    /\ fpPc[d] = "call"
    /\ \E bind \in {"ok", "tcp", "udp"}, dhtErr \in BOOLEAN :
         LET announce == Announce(d)
             fatal == announce /\ bind # "ok"
         IN  /\ ~announce => bind = "ok"
             /\ fatal => ~dhtErr
             /\ tcpListener' = [tcpListener EXCEPT ![d] =
                    IF announce /\ bind = "ok" THEN "serving"
                    ELSE IF announce /\ bind = "udp" THEN ExitedListener("serving")
                    ELSE @]
             /\ udpListener' = [udpListener EXCEPT ![d] =
                    IF announce /\ bind = "ok" THEN "serving" ELSE @]
             /\ fpPc' = [fpPc EXCEPT ![d] =
                    IF fatal THEN "fatal" ELSE IF dhtErr THEN "returned" ELSE "probe"]
             /\ dhtNode' = [dhtNode EXCEPT ![d] =
                    IF fatal \/ dhtErr THEN @ ELSE <<announce>>]
             /\ closed' = [closed EXCEPT ![d] = ~fatal /\ dhtErr]
             /\ cpc' = IF d = "A" /\ ConsumerStarted(fatal, dhtErr)
                       THEN "idle" ELSE cpc
    /\ UNCHANGED <<cfgVars, tcpVars, dhtRequested, respVars, dhtResults, dhtGiven, ver,
                   vReply, lastResult, mainPc, printed>>

\* the receive loop of listenAndServeUDP: buf := a.udpPool.Get()
UDPGet ==
    /\ Alive("B") /\ udpListener["B"] = "serving" /\ udpLoopBuf = 0
    /\ udpLoopBuf' = PoolGetId(udpPool, bufs)
    /\ udpPool' = PoolAfterGet(udpPool)
    /\ bufs' = BufsAfterGet(udpPool, bufs)
    /\ UNCHANGED <<cfgVars, tcpVars, fpVars, dhtRequested, udpHandlers, udpIn, inputs, lastSent,
                   pipeVars>>

\* a receive loop that puts the buffer back at once, handler or not
PoolAfterReadEager(n, pool, id) == PoolPut(pool, id)

\* a receive loop that forgets the buffer of an empty datagram
PoolAfterReadLeaky(n, pool, id) == pool

\* the pool after ReadFromUDP returned n bytes without error: the buffer goes
\* to the handler when n > 0 and back to the pool otherwise
PoolAfterRead(n, pool, id) == IF n > 0 THEN pool ELSE PoolPut(pool, id)

\* ReadFromUDP returns a datagram: start a handler, or release the buffer
UDPRead(dg) ==
    /\ Alive("B") /\ udpListener["B"] = "serving" /\ udpLoopBuf # 0
    /\ dg \in udpIn
    /\ udpIn' = udpIn \ {dg}
    /\ bufs' = [bufs EXCEPT ![udpLoopBuf] = Overlay(@, dg.data)]
    /\ LET n == WireLen(dg.data, ChallengeFieldLen)
       IN  /\ udpPool' = PoolAfterRead(n, udpPool, udpLoopBuf)
           /\ udpHandlers' = IF n > 0
                             THEN udpHandlers \cup
                                    {[buf |-> udpLoopBuf, vid |-> dg.vid, n |-> n]}
                             ELSE udpHandlers
    /\ udpLoopBuf' = 0
    /\ UNCHANGED <<cfgVars, tcpVars, fpVars, dhtRequested, inputs, lastSent, pipeVars>>

\* ReadFromUDP returns an error: release the buffer, close, leave the loop
UDPReadError ==
    /\ Alive("B") /\ udpListener["B"] = "serving" /\ udpLoopBuf # 0
    /\ udpPool' = PoolPut(udpPool, udpLoopBuf)
    /\ udpLoopBuf' = 0
    /\ udpListener' = [udpListener EXCEPT !["B"] = "stopped"]
    /\ UNCHANGED <<cfgVars, tcpVars, fpPc, tcpListener, dhtNode, closed, dhtRequested, bufs,
                   udpHandlers, udpIn, inputs, lastSent, pipeVars>>

\* handleUDPClient, from the parse to the deferred Put
HandleUDP(h) ==
    /\ Alive("B") /\ h \in udpHandlers
    /\ udpHandlers' = udpHandlers \ {h}
    /\ udpPool' = PoolPut(udpPool, h.buf)
    /\ LET in == ReadChallenge(bufs[h.buf])
           response == respondChallenge("B", in.challenge, NewResponse("B"))
       IN  IF in.ok /\ udpListener["B"] = "serving"
           THEN /\ lastSent' = <<[proto |-> "udp", n |-> h.n, vid |-> h.vid,
                                 challenge |-> in.challenge, resp |-> response]>>
                /\ vReply' = IF h.vid # 0 /\ cpc = "reading" /\ ver.vid = h.vid
                             THEN vReply \cup {ResponseBytes(response)}
                             ELSE vReply
           ELSE UNCHANGED <<lastSent, vReply>>
    /\ UNCHANGED <<cfgVars, tcpVars, fpVars, dhtRequested, bufs, udpLoopBuf, udpIn, inputs,
                   dhtResults, dhtGiven, cpc, ver, lastResult, mainPc, printed>>

\* what hosts other than the modelled ones send to B's UDP port
EnvChallenges ==
    [MagicHeader : {legacyMagicHeader, CopyInto(LEN_MAGIC, magicHeader)},
     Dedupe : DedupeIds, Challenge : EnvNonces]
EnvFrames ==
    {ChallengeBytes(c) : c \in EnvChallenges}
    \cup {<<>>, <<legacyMagicHeader>>}

\* what they write on a TCP connection before waiting for the answer
EnvStreams ==
    {ChallengeBytes(c) : c \in EnvChallenges} \cup {<<legacyMagicHeader>>}

EnvSend(frame) ==
    /\ Alive("B") /\ udpListener["B"] = "serving" /\ medium = "udp"
    /\ inputs < MaxInputs
    /\ inputs' = inputs + 1
    /\ udpIn' = udpIn \cup {[vid |-> 0, data |-> frame]}
    /\ UNCHANGED <<cfgVars, tcpVars, fpVars, dhtRequested, udpPool, bufs, udpLoopBuf,
                   udpHandlers, lastSent, pipeVars>>

\* ------------------------------------------------------------ TCP listeners
\* a foreign host connects to a TCP listener of B, writes `frame` and waits
EnvConnect(srv, frame) ==
    /\ Alive("B") /\ inputs < MaxInputs
    /\ IF srv = "AuthServer"
       THEN tcpListener["B"] = "serving" /\ medium = "tcp"
       ELSE resolverListener = "serving" /\ medium = "legacy"
    /\ inputs' = inputs + 1
    /\ tcpIn' = tcpIn \cup {[srv |-> srv, data |-> frame, isNil |-> FALSE]}
    /\ UNCHANGED <<rvResult, cfgVars, fpVars, dhtRequested, udpPool, bufs, udpLoopBuf,
                   udpHandlers, udpIn, lastSent, pipeVars, resolverListener,
                   tcpHandlers>>

\* the accept loops: Accept returns a connection, `go handle...(conn)`
TCPAccept(c) ==
    /\ Alive("B") /\ c \in tcpIn
    /\ IF c.srv = "AuthServer" THEN tcpListener["B"] = "serving"
                               ELSE resolverListener = "serving"
    /\ tcpIn' = tcpIn \ {c}
    /\ tcpHandlers' = tcpHandlers \cup {c}
    /\ UNCHANGED <<rvResult, cfgVars, fpVars, dhtRequested, respVars, pipeVars,
                   resolverListener>>

\* a handler that shuts the listener when the frame does not parse
HandleTCPClientClosingListener(c) ==
    /\ Alive("B") /\ c \in tcpHandlers /\ c.srv = "AuthServer"
    /\ tcpHandlers' = tcpHandlers \ {c}
    /\ tcpListener' = [tcpListener EXCEPT !["B"] =
           IF ReadChallenge(c.data).ok THEN @ ELSE "stopped"]
    /\ UNCHANGED <<rvResult, cfgVars, fpPc, udpListener, dhtNode, closed,
                   dhtRequested, respVars, pipeVars, resolverListener, tcpIn>>

\* AuthServer.handleTCPClient: read, respondChallenge, write (which may fail),
\* close
HandleTCPClient(c) ==
    /\ Alive("B") /\ c \in tcpHandlers /\ c.srv = "AuthServer"
    /\ tcpHandlers' = tcpHandlers \ {c}
    /\ \E written \in BOOLEAN :
       LET in == ReadChallenge(c.data)
           response == respondChallenge("B", in.challenge, NewResponse("B"))
       IN  IF in.ok /\ written
           THEN lastSent' = <<[proto |-> "tcp", n |-> WireLen(c.data, ChallengeFieldLen),
                               vid |-> 0, challenge |-> in.challenge,
                               resp |-> response]>>
           ELSE UNCHANGED lastSent
    /\ UNCHANGED <<rvResult, cfgVars, fpVars, dhtRequested, udpPool, bufs, udpLoopBuf,
                   udpHandlers, udpIn, inputs, pipeVars, resolverListener, tcpIn>>

\* AuthResolver.ListenAndServe: the listener and its accept loop
ResolverListenAndServe ==
    /\ Alive("B") /\ resolverListener = "idle" /\ medium = "legacy"
    /\ \E err \in BOOLEAN :
         resolverListener' = IF err THEN "fatal" ELSE "serving"
    /\ UNCHANGED <<rvResult, cfgVars, fpVars, dhtRequested, respVars, pipeVars, tcpIn,
                   tcpHandlers>>

\* what AuthResolver.handleConn writes for a parsed challenge: <<>> or <<r>>
handleConnResponse(d, challenge) ==
    IF ~bytesEqual(challenge.MagicHeader, legacyMagicHeader) THEN <<>>
    ELSE IF ~allowSelfConnection /\ bytesEqual(challenge.Dedupe, dedupe[d])
    THEN <<>>
    ELSE <<[Port |-> ToUint16(appPort[d]),
            MAC |-> HMAC(passphrase[d], challenge.Challenge)]>>

\* AuthResolver.handleConn; on the nil connection of a failed Accept the
\* deferred conn.Close() is a nil dereference and the panic ends the process
HandleConn(c) ==
    /\ Alive("B") /\ c \in tcpHandlers /\ c.srv = "AuthResolver"
    /\ IF c.isNil
       THEN /\ fpPc' = [fpPc EXCEPT !["B"] = "panic"]
            /\ tcpListener' = [tcpListener EXCEPT !["B"] = ExitedListener(@)]
            /\ udpListener' = [udpListener EXCEPT !["B"] = ExitedListener(@)]
            /\ resolverListener' = ExitedListener(resolverListener)
            /\ UNCHANGED <<tcpHandlers, lastSent>>
       ELSE /\ tcpHandlers' = tcpHandlers \ {c}
            /\ LET in == ReadChallenge(c.data)
                   out == handleConnResponse("B", in.challenge)
               IN  IF in.ok /\ out # <<>>
                   THEN lastSent' = <<[proto |-> "legacy",
                                       n |-> WireLen(c.data, ChallengeFieldLen),
                                       vid |-> 0, challenge |-> in.challenge,
                                       resp |-> out[1]]>>
                   ELSE UNCHANGED lastSent
            /\ UNCHANGED <<fpPc, tcpListener, udpListener, resolverListener>>
    /\ UNCHANGED <<rvResult, cfgVars, dhtNode, closed, dhtRequested, udpPool, bufs, udpLoopBuf,
                   udpHandlers, udpIn, inputs, pipeVars, tcpIn>>

\* Accept of AuthServer's listener returns an error: the loop returns and the
\* deferred Close runs
TCPAcceptError ==
    /\ Alive("B") /\ tcpListener["B"] = "serving"
    /\ tcpListener' = [tcpListener EXCEPT !["B"] = "stopped"]
    /\ UNCHANGED <<cfgVars, fpPc, udpListener, dhtNode, closed, dhtRequested, respVars,
                   pipeVars, tcpVars>>

\* Accept of AuthResolver's listener returns (nil, aErr): the loop tests `err`
\* of the listener factory, which is nil, so it starts handleConn on the nil
\* connection and calls Accept again
ResolverAcceptError ==
    /\ Alive("B") /\ resolverListener = "serving"
    /\ inputs < MaxInputs
    /\ inputs' = inputs + 1
    /\ tcpHandlers' = tcpHandlers \cup
          {[srv |-> "AuthResolver", data |-> <<>>, isNil |-> TRUE]}
    /\ UNCHANGED <<rvResult, cfgVars, fpVars, dhtRequested, udpPool, bufs, udpLoopBuf,
                   udpHandlers, udpIn, lastSent, pipeVars, resolverListener, tcpIn>>

\* AuthResolver.newChallenge with the 20 random bytes `nonce`
newChallenge(d, nonce) ==
    [MagicHeader |-> CopyInto(LEN_MAGIC, legacyMagicHeader),
     Dedupe |-> dedupe[d], Challenge |-> nonce]

\* AuthResolver.checkMAC
checkMAC(message, messageMAC, key) == bytesEqual(messageMAC, HMAC(key, message))

\* what the host at `addr` writes back on the connection of a legacy Verify:
\* B's resolver answers as handleConn does, a foreign host as it likes; <<>>
\* is a connection closed without an answer
LegacyReplies(addr, challenge) ==
    IF addr = "B"
    THEN {IF handleConnResponse("B", challenge) = <<>> THEN <<>>
          ELSE ResponseBytes(handleConnResponse("B", challenge)[1])}
    ELSE {ResponseBytes([Port |-> 9000, MAC |-> HMAC(k, challenge.Challenge)]) :
             k \in Passphrases} \cup {<<>>, <<9000>>}

\* what AuthResolver.Verify returns when it gets as far as `step` and the
\* Response was read (`read`) and its MAC matched (`macOk`)
VerifyReturn(step, read, macOk) ==
    IF step = "write" THEN "nil"
    ELSE IF step = "ok" /\ read /\ macOk THEN "nil"
    ELSE "error"

\* A calls AuthResolver.Verify(addr, c): dial, newChallenge, write, read,
\* checkMAC, c <- peer; each of the first three may fail
ResolverVerify(addr) ==
    /\ medium = "legacy" /\ inputs < MaxInputs
    /\ inputs' = inputs + 1
    /\ \E step \in {"dial", "rand", "write", "ok"} :
       \E data \in LegacyReplies(addr, newChallenge("A", inputs + 1)) :
         LET challenge == newChallenge("A", inputs + 1)
             in == ReadResponse(data)
             read == step = "ok" /\ in.ok
             macOk == read /\ checkMAC(challenge.Challenge, in.response.MAC,
                                       passphrase["A"])
         IN  /\ addr = "B" /\ ~(Alive("B") /\ resolverListener = "serving")
                   => step = "dial"
             /\ rvResult' =
                   <<[addr |-> addr, ret |-> VerifyReturn(step, read, macOk),
                      written |-> step = "ok", read |-> read, macOk |-> macOk,
                      sent |-> IF step = "ok" /\ read /\ macOk
                               THEN <<<<addr, in.response.Port>>>> ELSE <<>>]>>
    /\ UNCHANGED <<cfgVars, fpVars, dhtRequested, udpPool, bufs, udpLoopBuf,
                   udpHandlers, udpIn, lastSent, pipeVars, resolverListener,
                   tcpIn, tcpHandlers>>

\* ---------------------------------------------------------------- verifier
\* NewChallenge with the 20 random bytes `nonce`
NewChallenge(d, nonce) ==
    [MagicHeader |-> CopyInto(LEN_MAGIC, magicHeader),
     Dedupe |-> dedupe[d], Challenge |-> nonce]

\* challenge.ToBuffer()
ToBuffer(challenge) == ChallengeBytes(challenge)

\* the buffer verifyUDP sends: ToBuffer, then binary.Write of the challenge
\* into the same buffer
ChallengeBuf(challenge) == ToBuffer(challenge) \o ChallengeBytes(challenge)

\* responseBuffer after udpConn.ReadFrom(responseBuffer.Bytes()) received
\* `data`: the read goes into the zero-length slice of a new bytes.Buffer
ResponseBufferAfterRead(data) == Take(data, 0)

\* challenge.VerifyResponse(responseBuffer, passphrase)
VerifyResponse(challenge, responseBuffer, key) ==
    LET in == ReadResponse(responseBuffer)
    IN  IF ~in.ok THEN [ok |-> FALSE]
        ELSE IF ~bytesEqual(in.response.MAC, HMAC(key, challenge.Challenge))
        THEN [ok |-> FALSE]
        ELSE [ok |-> TRUE, response |-> in.response]

\* the pair (response, err) Verify returns: `response` is <<>> for nil,
\* `result` is "OK" for a nil error and the name of the error otherwise
ReturnError(e) == [result |-> e, port |-> 0, response |-> <<>>]
ReturnResponse(r) == [result |-> "OK", port |-> r.Port, response |-> <<r>>]
\* the `return nil, nil` that ends verifyUDP
ReturnNothing == [result |-> "OK", port |-> 0, response |-> <<>>]

\* a verifyUDP that parses the datagram it received and never looks at `ok`
VerifyOutcomeUnchecked(challenge, data, key) ==
    LET in == ReadResponse(data)
    IN  IF in.ok THEN ReturnResponse(in.response)
        ELSE ReturnError("ERR_DID_NOT_VERIFY")

\* a verifyUDP whose `ok == false` branch has no return and so falls through
\* to the last line
VerifyOutcomeFallingThrough(challenge, data, key) ==
    LET v == VerifyResponse(challenge, ResponseBufferAfterRead(data), key)
    IN  IF v.ok THEN ReturnResponse(v.response) ELSE ReturnNothing

\* what verifyUDP returns once a datagram `data` has been received
VerifyOutcome(challenge, data, key) ==
    LET v == VerifyResponse(challenge, ResponseBufferAfterRead(data), key)
    IN  IF v.ok THEN ReturnResponse(v.response)
        ELSE ReturnError("ERR_DID_NOT_VERIFY")

\* the branch the consumer takes on (response, err): the error branch when
\* err != nil || response == nil, where err.Error() on a nil err panics
ConsumerBranch(out) ==
    IF out.result # "OK" \/ out.response = <<>>
    THEN IF out.result = "OK" THEN "panic" ELSE "error"
    ELSE "peer"

NoReply == [got |-> FALSE, data |-> <<>>]
Finished(v, reply, out) ==
    [vid |-> v.vid, addr |-> v.addr, challenge |-> v.challenge, reply |-> reply,
     result |-> out.result, port |-> out.port, response |-> out.response]
NoVer == [vid |-> 0, addr |-> "", challenge |-> NewChallenge("A", 0)]

\* a consumer that gives up at the first failed verification
AfterFailureReturn == "none"

\* where the consumer stands once a failed verification has been logged: the
\* range loop goes on to the next candidate
AfterFailure == "idle"

\* the probe loop: dhtService.PeersRequest(ih, true), every 5 seconds
FindPeersProbe ==
    /\ fpPc["A"] = "probe" /\ ~dhtRequested
    /\ dhtRequested' = TRUE
    /\ UNCHANGED <<cfgVars, tcpVars, fpVars, respVars, pipeVars>>

\* the DHT client of A answers a request with a candidate address
DHTResult(addr) ==
    /\ dhtRequested /\ inputs < MaxInputs
    /\ inputs' = inputs + 1
    /\ dhtResults' = Append(dhtResults, addr)
    /\ UNCHANGED <<cfgVars, tcpVars, fpVars, dhtRequested, udpPool, bufs, udpLoopBuf,
                   udpHandlers, udpIn, lastSent, dhtGiven, cpc, ver, vReply,
                   lastResult, mainPc, printed>>

\* the consumer takes the next candidate and calls this.Verify(address):
\* verifyUDP down to the blocking ReadFrom, or an early error return
ConsumerVerify ==
    /\ cpc = "idle" /\ dhtResults # <<>>
    /\ dhtResults' = Tail(dhtResults)
    /\ dhtGiven' = dhtGiven + 1
    /\ \E step \in {"rand", "resolve", "dial", "write", "read"} :
         LET v == [vid |-> dhtGiven + 1, addr |-> Head(dhtResults),
                   challenge |-> NewChallenge("A", dhtGiven + 1)]
             err == CASE step = "rand" -> "ERR_CHALLENGE"
                      [] step = "resolve" -> "ERR_INVALID_ADDR"
                      [] step = "dial" -> "ERR_COULD_NOT_CONNECT"
                      [] OTHER -> "ERR_COULD_NOT_SEND"
         IN  IF step = "read"
             THEN /\ ver' = v
                  /\ cpc' = "reading"
                  /\ udpIn' = IF v.addr = "B" /\ Alive("B")
                                 /\ udpListener["B"] = "serving"
                              THEN udpIn \cup {[vid |-> v.vid,
                                                data |-> ChallengeBuf(v.challenge)]}
                              ELSE udpIn
                  /\ UNCHANGED lastResult
             ELSE /\ lastResult' =
                        <<Finished(v, NoReply, ReturnError(err))>>
                  /\ cpc' = AfterFailure
                  /\ UNCHANGED <<ver, udpIn>>
    /\ UNCHANGED <<cfgVars, tcpVars, fpVars, dhtRequested, udpPool, bufs, udpLoopBuf,
                   udpHandlers, inputs, lastSent, vReply, mainPc, printed>>

\* a foreign host answers the challenge it was sent
ForeignReplies(challenge) ==
    {ResponseBytes([Port |-> 9000, MAC |-> HMAC(k, challenge.Challenge)]) :
        k \in Passphrases} \cup {<<9000>>}

RemoteReply(data) ==
    /\ cpc = "reading" /\ ver.addr = "X" /\ vReply = {}
    /\ vReply' = {data}
    /\ UNCHANGED <<cfgVars, tcpVars, fpVars, dhtRequested, respVars, dhtResults, dhtGiven,
                   cpc, ver, lastResult, mainPc, printed>>

\* ReadFrom returns a datagram: VerifyResponse decides, and the consumer
\* logs the error or goes to send the Peer
VerifyRead(data) ==
    /\ cpc = "reading" /\ data \in vReply
    /\ LET out == VerifyOutcome(ver.challenge, data, passphrase["A"])
           branch == ConsumerBranch(out)
       IN  /\ lastResult' = <<Finished(ver, [got |-> TRUE, data |-> data], out)>>
           /\ cpc' = CASE branch = "peer" -> "sending"
                       [] branch = "panic" -> "none"
                       [] OTHER -> AfterFailure
           /\ fpPc' = IF branch = "panic" THEN [fpPc EXCEPT !["A"] = "panic"]
                      ELSE fpPc
           /\ ver' = IF branch = "peer" THEN ver ELSE NoVer
    /\ vReply' = {}
    /\ UNCHANGED <<cfgVars, tcpVars, tcpListener, udpListener, dhtNode, closed,
                   dhtRequested, respVars, dhtResults, dhtGiven, mainPc, printed>>

\* a verifyUDP that sets no deadline on its socket
DeadlineNotArmed == FALSE

\* udpConn.SetDeadline(time.Now().Add(300 * time.Millisecond)), before the
\* challenge is written
DeadlineArmed == TRUE

\* the 300 ms deadline expires before a datagram has been read
VerifyDeadline ==
    /\ cpc = "reading" /\ DeadlineArmed
    /\ lastResult' = <<Finished(ver, NoReply,
                          ReturnError("ERR_DID_NOT_RESPOND"))>>
    /\ cpc' = AfterFailure
    /\ ver' = NoVer
    /\ vReply' = {}
    /\ UNCHANGED <<cfgVars, tcpVars, fpVars, dhtRequested, respVars, dhtResults, dhtGiven,
                   mainPc, printed>>

\* the CLI: FindPeers has returned, `for p := range dis.DiscoveredPeers`
MainFindPeersReturned ==
    /\ mainPc = "FindPeers" /\ fpPc["A"] = "returned"
    /\ mainPc' = "range"
    /\ UNCHANGED <<cfgVars, tcpVars, fpVars, dhtRequested, respVars, dhtResults, dhtGiven,
                   cpc, ver, vReply, lastResult, printed>>

\* one turn of the range loop: the channel is closed, or the consumer stands
\* at `this.DiscoveredPeers <- peer` and the peer is handed over and printed
MainRange ==
    /\ mainPc = "range"
    /\ IF closed["A"]
       THEN /\ mainPc' = "exit"
            /\ UNCHANGED <<cpc, ver, printed>>
       ELSE /\ cpc = "sending"
            /\ printed' = printed \cup {<<ver.addr, lastResult[1].port>>}
            /\ cpc' = "idle"
            /\ ver' = NoVer
            /\ UNCHANGED mainPc
    /\ UNCHANGED <<cfgVars, tcpVars, fpVars, dhtRequested, respVars, dhtResults, dhtGiven,
                   vReply, lastResult>>

\* ------------------------------------------------------------ specification
Init ==
    /\ appPort \in [Discoverers -> AppPorts]
    /\ appPort["A"] = -1
    /\ passphrase \in [Discoverers -> Passphrases]
    /\ passphrase["B"] = "P"
    /\ dedupe \in [Discoverers -> DedupeIds]
    /\ dedupe["B"] = 1
    /\ allowSelfConnection \in BOOLEAN
    /\ ih = [d \in Discoverers |-> NewDiscovererInfoHash(d)]
    /\ medium \in Media
    /\ fpPc = [d \in Discoverers |-> "call"]
    /\ tcpListener = [d \in Discoverers |-> "idle"]
    /\ udpListener = [d \in Discoverers |-> "idle"]
    /\ dhtNode = [d \in Discoverers |-> <<>>]
    /\ closed = [d \in Discoverers |-> FALSE]
    /\ dhtRequested = FALSE
    /\ udpPool = <<>>
    /\ bufs = <<>>
    /\ udpLoopBuf = 0
    /\ udpHandlers = {}
    /\ udpIn = {}
    /\ inputs = 0
    /\ lastSent = <<>>
    /\ dhtResults = <<>>
    /\ dhtGiven = 0
    /\ cpc = "none"
    /\ ver = NoVer
    /\ vReply = {}
    /\ lastResult = <<>>
    /\ mainPc = "FindPeers"
    /\ printed = {}
    /\ resolverListener = "idle"
    /\ tcpIn = {}
    /\ tcpHandlers = {}
    /\ rvResult = <<>>

vars == <<cfgVars, fpVars, dhtRequested, respVars, pipeVars, tcpVars>>

\* The discovery pipeline of A verifying candidates, one of which is the
\* Responder of B; no foreign host sends B anything.
Next ==
    \/ \E d \in Discoverers : FindPeers(d)
    \/ FindPeersProbe
    \/ UDPGet
    \/ \E dg \in udpIn : UDPRead(dg)
    \/ \E h \in udpHandlers : HandleUDP(h)
    \/ \E addr \in Addresses : DHTResult(addr)
    \/ ConsumerVerify
    \/ \E data \in ForeignReplies(ver.challenge) : RemoteReply(data)
    \/ \E data \in vReply : VerifyRead(data)
    \/ VerifyDeadline
    \/ MainFindPeersReturned
    \/ MainRange

PipelineInit == Init /\ medium = "udp"

Spec == PipelineInit /\ [][Next]_vars

\* The Responder of B alone, fed by foreign hosts; A never starts.
ResponderInit == Init /\ passphrase["A"] = "P" /\ dedupe["A"] = 2

ResponderNext ==
    \/ FindPeers("B")
    \/ UDPGet
    \/ \E dg \in udpIn : UDPRead(dg)
    \/ \E h \in udpHandlers : HandleUDP(h)
    \/ \E frame \in EnvFrames : EnvSend(frame)
    \/ ResolverListenAndServe
    \/ \E srv \in {"AuthServer", "AuthResolver"}, frame \in EnvStreams :
          EnvConnect(srv, frame)
    \/ \E c \in tcpIn : TCPAccept(c)
    \/ \E c \in tcpHandlers : HandleTCPClient(c)
    \/ \E c \in tcpHandlers : HandleConn(c)

ResponderSpec == ResponderInit /\ [][ResponderNext]_vars

\* The listeners of B with the errors their sockets can report.
ListenerInit == ResponderInit /\ appPort["B"] = 8080 /\ ~allowSelfConnection

ListenerNext ==
    \/ FindPeers("B")
    \/ UDPGet
    \/ \E dg \in udpIn : UDPRead(dg)
    \/ UDPReadError
    \/ \E h \in udpHandlers : HandleUDP(h)
    \/ \E frame \in EnvFrames : EnvSend(frame)
    \/ ResolverListenAndServe
    \/ \E srv \in {"AuthServer", "AuthResolver"}, frame \in EnvStreams :
          EnvConnect(srv, frame)
    \/ \E c \in tcpIn : TCPAccept(c)
    \/ TCPAcceptError
    \/ ResolverAcceptError
    \/ \E c \in tcpHandlers : HandleTCPClient(c)
    \/ \E c \in tcpHandlers : HandleConn(c)

ListenerSpec == ListenerInit /\ [][ListenerNext]_vars

\* The legacy AuthResolver: B listens, A verifies addresses over TCP.
LegacyInit == Init /\ medium = "legacy"

LegacyNext ==
    \/ ResolverListenAndServe
    \/ \E frame \in EnvStreams : EnvConnect("AuthResolver", frame)
    \/ \E c \in tcpIn : TCPAccept(c)
    \/ \E c \in tcpHandlers : HandleConn(c)
    \/ ResolverAcceptError
    \/ \E addr \in Addresses : ResolverVerify(addr)

LegacySpec == LegacyInit /\ [][LegacyNext]_vars

\* Fair scheduling of one configuration: every goroutine that can take a step
\* eventually takes it; the outside world owes nothing.
LiveInit ==
    /\ PipelineInit
    /\ appPort["B"] = 8080 /\ passphrase["A"] = "P"
    /\ dedupe["A"] = 2 /\ ~allowSelfConnection

Fairness ==
    /\ \A d \in Discoverers : WF_vars(FindPeers(d))
    /\ WF_vars(FindPeersProbe)
    /\ WF_vars(UDPGet)
    /\ WF_vars(\E dg \in udpIn : UDPRead(dg))
    /\ WF_vars(\E h \in udpHandlers : HandleUDP(h))
    /\ WF_vars(ConsumerVerify)
    /\ WF_vars(\E data \in vReply : VerifyRead(data))
    /\ WF_vars(VerifyDeadline)
    /\ WF_vars(MainFindPeersReturned)
    /\ WF_vars(MainRange)

LiveSpec == LiveInit /\ [][Next]_vars /\ Fairness

\* ------------------------------------------------------------------ claims
Answered == lastSent # <<>>
Returned == lastResult # <<>>
EarlyErrors ==
    {"ERR_CHALLENGE", "ERR_INVALID_ADDR", "ERR_COULD_NOT_CONNECT",
     "ERR_COULD_NOT_SEND"}

\* the datagram a finished verification received is a Response whose MAC is
\* HMAC-SHA256(local passphrase, nonce of its challenge)
ValidReply(r) ==
    /\ r.reply.got
    /\ ReadResponse(r.reply.data).ok
    /\ ReadResponse(r.reply.data).response.MAC
         = HMAC(passphrase["A"], r.challenge.Challenge)

\* C1: a Response is accepted if and only if its MAC is the HMAC of the
\* challenge's nonce under the local passphrase, and a Peer heads for the
\* output stream only after such a Response.
C1_AcceptedIffValidMAC ==
    /\ Returned /\ lastResult[1].reply.got =>
           (lastResult[1].result = "OK" <=> ValidReply(lastResult[1]))
    /\ cpc = "sending" => ValidReply(lastResult[1])

\* C2: no Response goes out, on UDP or on TCP, for a challenge frame whose
\* first 6 bytes are not "wherez".
C2_NoResponseToWrongMagic ==
    Answered /\ lastSent[1].proto \in {"udp", "tcp"} =>
        lastSent[1].challenge.MagicHeader = legacyMagicHeader

\* C3: with allowSelfConnection false, a challenge carrying the Responder's
\* own dedupe ID gets no Response, and the verify call that sent it returns
\* DID_NOT_RESPOND.
C3_SelfConnectionDropped ==
    ~allowSelfConnection /\ dedupe["A"] = dedupe["B"] =>
        /\ Answered => lastSent[1].vid = 0
        /\ Returned /\ lastResult[1].addr = "B"
              /\ lastResult[1].result \notin EarlyErrors =>
                lastResult[1].result = "ERR_DID_NOT_RESPOND"

\* C4: the MAC of every transmitted Response is HMAC-SHA256(Responder's
\* passphrase, nonce of the challenge it answers).
C4_ResponseCarriesHMAC ==
    Answered =>
        lastSent[1].resp.MAC
          = HMAC(passphrase["B"], lastSent[1].challenge.Challenge)

\* C5: same passphrase, self-connection enabled, reply delivered: verify
\* returns the Response with Port = pB and no error.
C5_HonestRoundTrip ==
    /\ Returned /\ lastResult[1].addr = "B" /\ lastResult[1].reply.got
    /\ passphrase["A"] = passphrase["B"] /\ allowSelfConnection
    => /\ lastResult[1].result = "OK"
       /\ lastResult[1].port = appPort["B"]

\* C6: different passphrases, reply delivered: verify returns DID_NOT_VERIFY
\* and no Peer for that address is emitted.
C6_WrongPassphraseRejected ==
    passphrase["A"] # passphrase["B"] =>
        /\ Returned /\ lastResult[1].addr = "B" /\ lastResult[1].reply.got
              => lastResult[1].result = "ERR_DID_NOT_VERIFY"
        /\ cpc = "sending" => ver.addr # "B"
        /\ \A p \in printed : p[1] # "B"

C6_Witness ==
    /\ passphrase["A"] # passphrase["B"]
    /\ Returned /\ lastResult[1].addr = "B" /\ lastResult[1].reply.got
    /\ Answered /\ lastSent[1].vid = lastResult[1].vid

\* C7: no UDP Response answers a datagram shorter than the 36 bytes of a
\* Challenge.
C7_ShortDatagramUnanswered ==
    Answered /\ lastSent[1].proto = "udp" => lastSent[1].n >= LEN_CHALLENGE

\* C8 as stated: the Port of every Response equals the configured appPort,
\* for every appPort > 0.
C8_PortEqualsAppPort ==
    Answered /\ appPort["B"] > 0 => lastSent[1].resp.Port = appPort["B"]

\* C8 as amended: the Port is the configured appPort modulo 2^16, hence the
\* appPort itself whenever it is a port number (below 65536).
C8_PortIsAppPortMod65536 ==
    Answered =>
        /\ lastSent[1].resp.Port = appPort["B"] % (2 ^ 16)
        /\ 0 < appPort["B"] /\ appPort["B"] < 2 ^ 16 =>
              lastSent[1].resp.Port = appPort["B"]

C8_Witness ==
    /\ Answered /\ appPort["B"] = 8080 /\ lastSent[1].resp.Port = 8080

\* C9: a candidate that answered its challenge with a valid Response is
\* eventually printed by the CLI as "peer found".
C9_VerifiedEventuallyPrinted ==
    \A a \in Addresses :
        (Returned /\ lastResult[1].addr = a /\ ValidReply(lastResult[1]))
            ~> (\E p \in printed : p[1] = a)

\* C10: while a verification is pending (waiting for its reply or to hand
\* over its Peer) the consumer can start verifying the next candidate.
C10_VerificationsOverlap ==
    cpc \in {"reading", "sending"} /\ dhtResults # <<>> => ENABLED ConsumerVerify

\* C11: the step that ends a verification with an error leaves the consumer
\* ready for the next candidate, drops no other candidate and leaves the
\* probe loop running; every candidate the DHT yields is eventually taken.
C11_FailureDiscardsOnlyCandidate ==
    /\ [][(lastResult' # lastResult /\ lastResult'[1].result # "OK") =>
            /\ cpc' = "idle"
            /\ fpPc'["A"] = "probe"
            /\ \/ dhtResults' = dhtResults
               \/ dhtResults # <<>> /\ dhtResults' = Tail(dhtResults)]_vars
    /\ \A n \in 1..MaxInputs :
          (dhtGiven + Len(dhtResults) >= n) ~> (dhtGiven >= n)

C11_Witness ==
    /\ Returned /\ lastResult[1].result \in EarlyErrors \cup {"ERR_DID_NOT_RESPOND"}
    /\ cpc = "reading" /\ ver.vid = lastResult[1].vid + 1
    /\ fpPc["A"] = "probe"

\* C12: once a bind failure has ended FindPeers in the fatal error, the
\* discoverer has no listening socket, no accept or receive loop and no DHT
\* client; and a discoverer that went on with appPort > 0 had bound both.
C12_BindFailureLeavesNothing ==
    /\ \A d \in Discoverers :
          /\ fpPc[d] = "fatal" =>
                /\ tcpListener[d] # "serving" /\ udpListener[d] # "serving"
                /\ dhtNode[d] = <<>>
          /\ fpPc[d] \in {"probe", "returned"} /\ appPort[d] > 0 =>
                tcpListener[d] # "idle" /\ udpListener[d] # "idle"
    /\ fpPc["B"] = "fatal" =>
          /\ ~ENABLED UDPGet
          /\ ~ENABLED (\E c \in tcpIn : TCPAccept(c))
          /\ ~ENABLED (\E dg \in udpIn : UDPRead(dg))

C12_Witness ==
    /\ fpPc["B"] = "fatal" /\ appPort["B"] > 0
    /\ tcpListener["B"] = "closed" /\ udpListener["B"] = "idle"

\* in how many places buffer `id` of the pool is held: the pool channel, the
\* receive loop, the handlers
Holders(id) ==
    Cardinality({i \in 1..Len(udpPool) : udpPool[i] = id})
    + (IF udpLoopBuf = id THEN 1 ELSE 0)
    + Cardinality({h \in udpHandlers : h.buf = id})

\* C13: every buffer taken from the pool is at any time either with the
\* receive loop, with one handler, or back in the pool once: none is released
\* twice, none is lost.
C13_BufferReleasedExactlyOnce ==
    /\ \A id \in 1..Len(bufs) : Holders(id) = 1
    /\ udpLoopBuf \in 0..Len(bufs)
    /\ \A h \in udpHandlers : h.buf \in 1..Len(bufs)

C13_Witness ==
    /\ udpListener["B"] = "stopped" /\ udpHandlers = {} /\ udpLoopBuf = 0
    /\ Len(bufs) >= 2 /\ Len(udpPool) = Len(bufs)

\* C14: a discoverer whose FindPeers went past the start has its listeners
\* and an announcing DHT client exactly when its appPort is positive; with a
\* non-positive appPort it has no listener, its DHT client does not announce
\* and its AuthServer never sends a Response.
C14_ResponderIffPositiveAppPort ==
    /\ \A d \in Discoverers :
          /\ dhtNode[d] # <<>> => dhtNode[d][1] = (appPort[d] > 0)
          /\ fpPc[d] \in {"probe", "returned"} =>
                /\ tcpListener[d] # "idle" <=> appPort[d] > 0
                /\ udpListener[d] # "idle" <=> appPort[d] > 0
          /\ appPort[d] <= 0 =>
                tcpListener[d] = "idle" /\ udpListener[d] = "idle"
    /\ Answered /\ lastSent[1].proto \in {"udp", "tcp"} => appPort["B"] > 0

C14_Witness ==
    /\ appPort["B"] <= 0 /\ fpPc["B"] = "probe"
    /\ dhtNode["B"] = <<FALSE>>
    /\ tcpListener["B"] = "idle" /\ udpListener["B"] = "idle"

\* C15: the datagram a verification sends is the 36-byte Challenge frame,
\* magic header, dedupe ID and nonce each once, and there is one per
\* verification.
C15_OneDatagramOf36Bytes ==
    /\ \A dg \in udpIn : dg.vid # 0 =>
          /\ WireLen(dg.data, ChallengeFieldLen) = LEN_CHALLENGE
          /\ dg.data = ToBuffer(NewChallenge("A", dg.vid))
    /\ \A d1, d2 \in udpIn : d1.vid = d2.vid /\ d1.vid # 0 => d1 = d2
    /\ \A h \in udpHandlers : h.vid # 0 => h.n = LEN_CHALLENGE

\* C16: a verification that received a datagram which is no 34-byte Response
\* returns IS_NOT_PEER; it returns DID_NOT_VERIFY only for a decoded Response
\* whose MAC does not match.
C16_MalformedReplyIsNotPeer ==
    Returned /\ lastResult[1].reply.got =>
        LET in == ReadResponse(lastResult[1].reply.data)
        IN  /\ ~in.ok => lastResult[1].result = "ERR_IS_NOT_PEER"
            /\ lastResult[1].result = "ERR_DID_NOT_VERIFY" =>
                  /\ in.ok
                  /\ ~ValidReply(lastResult[1])

\* C17: every discoverer's infohash is SHA-1 of the first 16 bytes of SHA-256
\* of its passphrase, so discoverers with one passphrase hold one infohash,
\* whatever their appPort and process.
C17_InfoHashFromPassphrase ==
    /\ \A d \in Discoverers :
          ih[d] = SHA1(<<SHA256(passphrase[d])[1]>>)
    /\ \A d1, d2 \in Discoverers :
          passphrase[d1] = passphrase[d2] => ih[d1] = ih[d2]

C17_Witness ==
    /\ passphrase["A"] = passphrase["B"] /\ appPort["A"] # appPort["B"]
    /\ dedupe["A"] # dedupe["B"]
    /\ ih["A"] = ih["B"] /\ dhtRequested

\* C18: a legacy Verify that returns nil has written the challenge, read a
\* Response, found its MAC right and sent exactly one Peer; any failure
\* makes it return an error.
C18_NilMeansVerified ==
    rvResult # <<>> =>
        /\ rvResult[1].ret = "nil" =>
              /\ rvResult[1].written /\ rvResult[1].read /\ rvResult[1].macOk
              /\ Len(rvResult[1].sent) = 1
        /\ ~(rvResult[1].written /\ rvResult[1].read /\ rvResult[1].macOk) =>
              rvResult[1].ret = "error"

\* C19: a failed Accept starts no handler and ends the accept loop, and a
\* failed UDP receive ends the receive loop: a stopped listener takes no
\* further request.
C19_AcceptErrorStopsLoop ==
    /\ \A c \in tcpHandlers : ~c.isNil
    /\ tcpListener["B"] = "stopped" =>
          \A c \in tcpIn : c.srv = "AuthServer" => ~ENABLED TCPAccept(c)
    /\ udpListener["B"] = "stopped" =>
          /\ ~ENABLED UDPGet
          /\ ~ENABLED (\E dg \in udpIn : UDPRead(dg))

\* C20: a step in which a handler of the AuthServer ends, whatever its
\* outcome, leaves both listeners as they were, and a serving listener can
\* take the next request.
C20_HandlerErrorsKeepListener ==
    /\ [][((\E c \in tcpHandlers : c.srv = "AuthServer" /\ c \notin tcpHandlers')
            \/ (\E h \in udpHandlers : h \notin udpHandlers'))
           => (tcpListener' = tcpListener /\ udpListener' = udpListener
               /\ fpPc' = fpPc)]_vars
    /\ [](Alive("B") /\ tcpListener["B"] = "serving" =>
            \A c \in tcpIn : c.srv = "AuthServer" => ENABLED TCPAccept(c))
    /\ [](Alive("B") /\ udpListener["B"] = "serving" /\ udpIn # {} =>
            ENABLED UDPGet \/ ENABLED (\E dg \in udpIn : UDPRead(dg)))

C20_Witness ==
    /\ medium = "tcp" /\ Alive("B") /\ tcpListener["B"] = "serving"
    /\ inputs = 2 /\ lastSent = <<>> /\ tcpHandlers = {}
    /\ Cardinality(tcpIn) = 1 /\ \A c \in tcpIn : ENABLED TCPAccept(c)

\* C21: every verification that waits for its reply returns; without a reply
\* it returns DID_NOT_RESPOND, and the step of the expiry changes neither the
\* pending candidates nor the listeners and handlers.
C21_VerifyTerminates ==
    /\ \A n \in 1..MaxInputs :
          (cpc = "reading" /\ ver.vid = n) ~> (Returned /\ lastResult[1].vid >= n)
    /\ [](Returned /\ ~lastResult[1].reply.got
              /\ lastResult[1].result \notin EarlyErrors
            => lastResult[1].result = "ERR_DID_NOT_RESPOND")
    /\ [][(lastResult' # lastResult
             /\ lastResult'[1].result = "ERR_DID_NOT_RESPOND")
           => (/\ dhtResults' = dhtResults /\ fpPc' = fpPc
               /\ tcpListener' = tcpListener /\ udpListener' = udpListener
               /\ udpHandlers' = udpHandlers /\ udpIn' = udpIn
               /\ cpc' = "idle")]_vars

C21_Witness ==
    /\ Returned /\ lastResult[1].result = "ERR_DID_NOT_RESPOND"
    /\ lastResult[1].addr = "X" /\ ~lastResult[1].reply.got
    /\ udpListener["B"] = "serving" /\ dhtResults # <<>>

\* C22: DiscoveredPeers is closed only by a FindPeers that returned before it
\* started the consumer, so no consumer stands at, or can come to, the send
\* on the closed channel.
C22_NoSendOnClosedChannel ==
    /\ closed["A"] =>
          /\ fpPc["A"] = "returned" /\ cpc = "none"
          /\ ~ENABLED ConsumerVerify
    /\ \A d \in Discoverers : closed[d] => dhtNode[d] = <<>>

C22_Witness ==
    /\ closed["A"] /\ mainPc = "exit" /\ printed = {}

\* C23: of the pair a finished Verify returned exactly one is non-nil, so the
\* consumer's error branch never calls Error() on a nil error.
C23_NeverNilNil ==
    /\ Returned =>
          (lastResult[1].result = "OK" <=> lastResult[1].response # <<>>)
    /\ fpPc["A"] # "panic"

C23_Witness ==
    /\ Returned /\ lastResult[1].reply.got /\ lastResult[1].response = <<>>
    /\ lastResult[1].result = "ERR_DID_NOT_VERIFY"
    /\ cpc = "idle" /\ fpPc["A"] = "probe"

\* C24: the Challenge of every verification starts with the octets "wherez"
\* and its MagicHeader equals the magicHeader the Responder compares it with.
C24_ChallengeMagicIsWherez ==
    cpc = "reading" =>
        /\ ver.challenge.MagicHeader = <<119, 104, 101, 114, 101, 122>>
        /\ bytesEqual(ver.challenge.MagicHeader, magicHeader)

\* C25: no buffer is with two parties: not with two handlers, not with a
\* handler and the receive loop, not in the pool while one of them has it;
\* and no step changes the bytes of a buffer a handler holds before and after.
C25_BufferHasOneUser ==
    /\ [](/\ \A h1, h2 \in udpHandlers : h1.buf = h2.buf => h1 = h2
          /\ \A h \in udpHandlers : h.buf # udpLoopBuf
          /\ \A i \in 1..Len(udpPool) :
                /\ udpPool[i] # udpLoopBuf
                /\ \A h \in udpHandlers : h.buf # udpPool[i])
    /\ [][\A h \in udpHandlers :
            h \in udpHandlers' => bufs'[h.buf] = bufs[h.buf]]_vars

C25_Witness ==
    /\ Cardinality(udpHandlers) = 1 /\ udpLoopBuf # 0 /\ udpIn # {}
    /\ \A h \in udpHandlers : h.buf # udpLoopBuf /\ bufs[h.buf] # ZeroBuf
    /\ udpPool # <<>>
====
